---- MODULE Spec2Model ----
(***************************************************************************)
(* hashfs: an fs.FS wrapper that splices a content hash into file names    *)
(* and keeps a forward (path -> hash path) and a reverse (hash path ->     *)
(* path, hash) lookup behind one sync.RWMutex.                             *)
(*                                                                         *)
(* src/hashfs.go holds two revisions of the package, one after the other:  *)
(*   "legacy"  (lines 1-281):   HashName / FormatName / ParseName / open   *)
(*   "rewrite" (lines 282-762): createHashedPath / addHashToFilname /      *)
(*                              lookupFromHashedPath / open                *)
(* An FS value is built from one of them; the variable `revision` says     *)
(* which, and every action is the code of that revision.                   *)
(*                                                                         *)
(* Strings are sequences of one-character strings, so that path.Split,     *)
(* strings.Index, path.Ext, path.Join and the slicing the code does are    *)
(* computed, character by character, as the Go code computes them.         *)
(***************************************************************************)
EXTENDS Integers, Sequences, FiniteSets, Bags, TLC

\* ------------------------------------------------------------------ bounds

\* Number of goroutines calling into one FS value concurrently.
NumThreads == 2

\* Read locks that are never released are counted up to this many; the lock
\* only ever asks whether the count of readers is zero.
MaxLeaked == 1

\* Names given to the name functions on their own have up to this many
\* characters.
MaxNameLen == 3

\* Length of a hex-encoded SHA-256 digest.
Sha256HexLen == 64

\* ------------------------------------------------------------------- state

VARIABLES
    revision,         \* "legacy" or "rewrite": which FS type of src/hashfs.go
    options,          \* the options NewFS was given, in order
    hashLocation,     \* FS.hl (legacy), FS.hashLocation (rewrite)
    hashLength,       \* the hash length the FS was configured with (HashLength)
    maxAge,           \* the max-age in seconds the FS holds (MaxAge, hfs.maxAge)
    hashAlgo,         \* the hash algorithm the FS was configured with (HashAlgo)
    mu,               \* FS.mu, the sync.RWMutex
    m,                \* legacy FS.m: path -> hash path
    r,                \* legacy FS.r: hash path -> <<path, hash>>
    pathToHashPath,   \* rewrite FS.pathToHashPath
    hashPathReverse,  \* rewrite FS.hashPathReverse: key -> reverse{...}
    crashed,          \* the process was ended by a fatal run-time error
    gs,               \* the goroutines calling into the FS: a bag of records
    nreads,           \* history: successful fs.ReadFile calls per path
    raced,            \* history: a lookup of the path missed while another
                      \* goroutine was between its own miss and its insert
    nameCall          \* the last call of a name function on its own

vars ==
    << revision, options, hashLocation, hashLength, maxAge, hashAlgo, mu, m, r,
       pathToHashPath, hashPathReverse, crashed, gs, nreads, raced, nameCall >>

fields == << revision, options, hashLocation, hashLength, maxAge, hashAlgo >>
config == << fields, nameCall >>
legacyMaps == << m, r >>
rewriteMaps == << pathToHashPath, hashPathReverse >>
history == << nreads, raced >>

\* ----------------------------------------------------------------- strings

Str0 == << >>

Min(a, b) == IF a < b THEN a ELSE b

\* strings.Index(s, c) for a one-character c, 1-based; 0 when c is absent
\* (Go answers -1).
Index(s, c) ==
    IF \E i \in 1..Len(s) : s[i] = c
    THEN CHOOSE i \in 1..Len(s) : s[i] = c /\ \A j \in 1..(i - 1) : s[j] # c
    ELSE 0

\* strings.LastIndex(s, c), 1-based; 0 when c is absent.
LastIndex(s, c) ==
    IF \E i \in 1..Len(s) : s[i] = c
    THEN CHOOSE i \in 1..Len(s) : s[i] = c /\ \A j \in (i + 1)..Len(s) : s[j] # c
    ELSE 0

\* s[:i] and s[i:] of Go for a 0-based cut i, 0 <= i <= len(s).
Take(s, i) == SubSeq(s, 1, i)
Drop(s, i) == SubSeq(s, i + 1, Len(s))

\* path.Split: dir is everything up to and including the final slash, file
\* what follows it.
PathSplit(p) ==
    LET i == LastIndex(p, "/") IN [dir |-> Take(p, i), file |-> Drop(p, i)]

\* path.Ext: the suffix beginning at the final dot of the final element.
PathExt(p) ==
    LET d == LastIndex(p, ".")
        s == LastIndex(p, "/")
    IN IF d > s THEN Drop(p, d - 1) ELSE Str0

\* The slash-separated elements of p (empty elements kept).
RECURSIVE Elements(_)
Elements(p) ==
    LET i == Index(p, "/")
    IN IF i = 0 THEN << p >>
       ELSE << Take(p, i - 1) >> \o Elements(Drop(p, i))

\* path.Clean's pass over the elements: "" and "." are dropped, ".." removes
\* the element before it, and is itself kept only at the start of a path that
\* is not rooted.
RECURSIVE CleanElements(_, _, _)
CleanElements(elems, out, rooted) ==
    IF elems = << >> THEN out
    ELSE LET e == Head(elems)
             rest == Tail(elems)
         IN IF e = Str0 \/ e = << "." >>
            THEN CleanElements(rest, out, rooted)
            ELSE IF e = << ".", "." >>
            THEN IF out # << >> /\ out[Len(out)] # << ".", "." >>
                 THEN CleanElements(rest, Take(out, Len(out) - 1), rooted)
                 ELSE IF rooted
                      THEN CleanElements(rest, out, rooted)
                      ELSE CleanElements(rest, Append(out, e), rooted)
            ELSE CleanElements(rest, Append(out, e), rooted)

RECURSIVE JoinSlash(_)
JoinSlash(elems) ==
    IF elems = << >> THEN Str0
    ELSE IF Len(elems) = 1 THEN elems[1]
    ELSE elems[1] \o << "/" >> \o JoinSlash(Tail(elems))

\* path.Clean
PathClean(p) ==
    IF p = Str0 THEN << "." >>
    ELSE LET rooted == p[1] = "/"
             body == JoinSlash(CleanElements(Elements(p), << >>, rooted))
         IN IF rooted THEN << "/" >> \o body
            ELSE IF body = Str0 THEN << "." >> ELSE body

\* path.Join of two elements: empty elements are ignored, the rest joined
\* by a slash and cleaned; "" when both are empty.
PathJoin(a, b) ==
    IF a = Str0 /\ b = Str0 THEN Str0
    ELSE IF a = Str0 THEN PathClean(b)
    ELSE IF b = Str0 THEN PathClean(a)
    ELSE PathClean(a \o << "/" >> \o b)

\* ------------------------------------------------- the backing file system

\* The files of the wrapped fs.FS and their contents. The contents never
\* change. RootFile and SubFile carry the same name and the same content in
\* different directories. StaleFile is a file whose own name has the shape of
\* a hash name of RootFile, with a digest that is the digest of no content.
RootFile == << "s", ".", "j" >>
SubFile == << "a", "/", "s", ".", "j" >>
MissingFile == << "n", "/", "x" >>
SubDir == << "a" >>
StaleFile == << "s", "-" >> \o [i \in 1..Sha256HexLen |-> "d"] \o << ".", "j" >>

Files == (RootFile :> "K1") @@ (SubFile :> "K1") @@ (StaleFile :> "K2")
Dirs == { << "." >>, SubDir }

\* fs.ValidPath(name): "." or slash-separated elements none of which is
\* empty, "." or "..".
ValidPath(name) ==
    \/ name = << "." >>
    \/ \A i \in 1..Len(Elements(name)) :
          Elements(name)[i] \notin { Str0, << "." >>, << ".", "." >> }

\* A faulty fs.ReadFile call site: the error is dropped (buf, _ := ...), the
\* caller goes on with an empty buffer.
ReadFile_errorDropped(name) ==
    [err |-> FALSE, buf |-> IF name \in DOMAIN Files THEN Files[name] ELSE ""]

\* fs.ReadFile(fsys, name): the content, or an error for a name that is no
\* regular file.
ReadFile(name) ==
    IF name \in DOMAIN Files
    THEN [err |-> FALSE, buf |-> Files[name]]
    ELSE [err |-> TRUE, buf |-> "" ]

\* fsys.Open(name): a handle on the file or directory of that name,
\* fs.ErrInvalid for a name that is no valid path, or fs.ErrNotExist. A
\* handle is modelled by the path it was opened on.
Open(name) ==
    IF ~ValidPath(name) THEN [err |-> "ErrInvalid", f |-> Str0]
    ELSE IF name \in DOMAIN Files \/ name \in Dirs
    THEN [err |-> "nil", f |-> name]
    ELSE [err |-> "ErrNotExist", f |-> Str0]

\* hex.EncodeToString(sha256.Sum256(buf)): 64 lowercase hex characters fixed
\* by the content; different contents of the model get different digests.
HexDigits ==
    { "0", "1", "2", "3", "4", "5", "6", "7", "8", "9", "a", "b", "c", "d", "e", "f" }

DigestDigit(buf) == IF buf = "K1" THEN "e" ELSE IF buf = "K2" THEN "c" ELSE "0"

\* A faulty digest: one hasher is shared by all calls and never reset, so
\* that only the first digest taken is the digest of the buffer alone.
EncodedSum256_sharedHasher(buf) ==
    [i \in 1..Sha256HexLen |->
        IF \E p \in DOMAIN nreads : nreads[p] > 0 THEN "f" ELSE DigestDigit(buf)]

EncodedSum256(buf) == [i \in 1..Sha256HexLen |-> DigestDigit(buf)]

\* ------------------------------------------------------ the name functions

hashLocationStart == 0
hashLocationFirstPeriod == 1
hashLocationEnd == 2
hashLocationDefault == hashLocationFirstPeriod

HashLocations == { hashLocationStart, hashLocationFirstPeriod, hashLocationEnd }

\* legacy: FormatName(filename, hash, hl)
FormatName(filename, hash, hl) ==
    IF filename = Str0 THEN Str0
    ELSE IF hash = Str0 THEN filename
    ELSE LET sp == PathSplit(filename)
             dir == sp.dir
             base == sp.file
             i == Index(base, ".")
         IN CASE hl = hashLocationFirstPeriod ->
                   IF i # 0
                   THEN PathJoin(dir, Take(base, i - 1) \o << "-" >> \o hash \o Drop(base, i - 1))
                   ELSE PathJoin(dir, base \o << "-" >> \o hash)
              [] hl = hashLocationStart ->
                   PathJoin(dir, hash \o << "." >> \o base)
              [] hl = hashLocationEnd ->
                   PathJoin(dir, base \o << "." >> \o hash \o PathExt(base))
              [] OTHER -> Str0

\* hashSuffixRegex.MatchString(pre): the pattern -[0-9a-f]{64} is not
\* anchored, it matches anywhere in pre.
hashSuffixRegexMatch(pre) ==
    \E i \in 1..(Len(pre) - Sha256HexLen) :
        /\ pre[i] = "-"
        /\ \A j \in (i + 1)..(i + Sha256HexLen) : pre[j] \in HexDigits

\* legacy: the package-level ParseName(filename), the parser by the shape of
\* the name alone.
ParseName(filename) ==
    IF filename = Str0 THEN [base |-> Str0, hash |-> Str0]
    ELSE LET sp == PathSplit(filename)
             dir == sp.dir
             b == sp.file
             i == Index(b, ".")
             pre == IF i # 0 THEN Take(b, i - 1) ELSE b
             ext == IF i # 0 THEN Drop(b, i - 1) ELSE Str0
         IN IF ~hashSuffixRegexMatch(pre)
            THEN [base |-> filename, hash |-> Str0]
            ELSE [base |-> PathJoin(dir, Take(pre, Len(pre) - (Sha256HexLen + 1)) \o ext),
                  hash |-> Drop(pre, Len(pre) - Sha256HexLen)]

\* A faulty addHashToFilname: the first-period case cuts the filename at its
\* last period (strings.LastIndex for strings.Index).
addHashToFilname_lastPeriod(filename, hash, hl) ==
    IF filename = Str0 THEN Str0
    ELSE IF hash = Str0 THEN Str0
    ELSE LET i == LastIndex(filename, ".")
         IN CASE hl = hashLocationFirstPeriod ->
                   IF i = 0
                   THEN filename \o << "-" >> \o hash
                   ELSE Take(filename, i - 1) \o << "-" >> \o hash \o Drop(filename, i - 1)
              [] hl = hashLocationStart ->
                   hash \o << "-" >> \o filename
              [] hl = hashLocationEnd ->
                   filename \o << "-" >> \o hash \o PathExt(filename)
              [] OTHER -> Str0

\* rewrite: (hf *FS) addHashToFilname(filename, hash), hf.hashLocation given
\* as hl.
addHashToFilname(filename, hash, hl) ==
    IF filename = Str0 THEN Str0
    ELSE IF hash = Str0 THEN Str0
    ELSE LET i == Index(filename, ".")
         IN CASE hl = hashLocationFirstPeriod ->
                   IF i = 0
                   THEN filename \o << "-" >> \o hash
                   ELSE Take(filename, i - 1) \o << "-" >> \o hash \o Drop(filename, i - 1)
              [] hl = hashLocationStart ->
                   hash \o << "-" >> \o filename
              [] hl = hashLocationEnd ->
                   filename \o << "-" >> \o hash \o PathExt(filename)
              [] OTHER -> Str0

\* What a translate call of the revision returns for a readable path p when
\* hl is the configured hash location.
LegacyHashName(p, hl) == FormatName(p, EncodedSum256(Files[p]), hl)

RewriteHashPath(p, hl) ==
    LET sp == PathSplit(p)
    IN PathJoin(sp.dir, addHashToFilname(sp.file, EncodedSum256(Files[p]), hl))

\* -------------------------------------------------------------- goroutines

\* Locals of the translate function: name is HashName's name and
\* createHashedPath's filepath, hashhex is hashhex and encodedHash, hashname
\* is hashname and filepathWithHash, key is the key the reverse entry is
\* stored under (hashname, and fileNameWithHash in createHashedPath).
NoLocals == [name |-> Str0, hashhex |-> Str0, hashname |-> Str0, key |-> Str0]
\* Locals of open: what the reverse lookup or the parser answered, and
\* whether the reverse map held the requested name (ok, exists).
NoOpen == [base |-> Str0, hash |-> Str0, ok |-> FALSE]
NoRet == [kind |-> "none"]

\* A goroutine: where it stands (pc), the call it makes or made last (op,
\* arg), the locals of the functions it is in (tl, ol), and what its last
\* call returned (ret); warm is history: the name given to open was a value
\* of the forward cache when open was called. Goroutines carry no name: two
\* in the same position are two copies of one record.
IdleGoroutine ==
    [pc |-> "idle", op |-> "none", arg |-> Str0, tl |-> NoLocals, ol |-> NoOpen,
     ret |-> NoRet, warm |-> FALSE, url |-> Str0, method |-> ""]

Goroutines == BagToSet(gs)
Others(g) == BagToSet(gs (-) SetToBag({ g }))
Step(g, g2) == gs' = (gs (-) SetToBag({ g })) (+) SetToBag({ g2 })

\* The paths goroutines ask to translate, and the names they ask to open: the
\* files, a path that does not exist, and (to open) the hash paths that
\* translate hands out under the configuration.
TranslateInputs == { RootFile, SubFile, MissingFile }

HashPaths ==
    { IF revision = "legacy" THEN LegacyHashName(p, hashLocation)
                             ELSE RewriteHashPath(p, hashLocation) : p \in { RootFile, SubFile } }

ResolveInputs == { SubFile, MissingFile } \cup HashPaths

Unlocked == [readers |-> 0, leaked |-> 0, writer |-> FALSE, pending |-> FALSE, corrupt |-> FALSE]

\* The option functions, by name, and the hash location each one sets
\* (legacy lines 257-280, rewrite lines 734-761).
OptionNames == { "HashLocationStart", "HashLocationEnd", "HashLocationFirstPeriod" }

\* An option given to NewFS: the option function called and its argument (0
\* for a function of no argument).
Option(name, arg) == [name |-> name, arg |-> arg]

\* The max-age values of the tests, in seconds: the default of one year and
\* a week.
DefaultMaxAge == 31536000
WeekMaxAge == 604800

\* crypto.MD5, crypto.SHA1 and crypto.SHA256, the hash algorithms of the
\* tests; the FS supports SHA-256 and MD5.
MD5 == 2
SHA1 == 3
SHA256 == 5
SupportedHashAlgos == { SHA256, MD5 }

\* The options HashLength(n), MaxAge(d) and HashAlgo(h), which the tests
\* call and whose code is not part of src/: the hash length is kept as
\* given, a max-age that is not positive is replaced by the default, an
\* unsupported algorithm panics.
DefaultConfigFields ==
    [hashLength |-> 0, maxAge |-> DefaultMaxAge, hashAlgo |-> SHA256, panicked |-> FALSE]

applyConfigOption(option, f) ==
    CASE option.name = "HashLength" -> [f EXCEPT !.hashLength = option.arg]
      [] option.name = "MaxAge" ->
            [f EXCEPT !.maxAge = IF option.arg <= 0 THEN DefaultMaxAge ELSE option.arg]
      [] option.name = "HashAlgo" ->
            IF option.arg \in SupportedHashAlgos
            THEN [f EXCEPT !.hashAlgo = option.arg]
            ELSE [f EXCEPT !.panicked = TRUE]
      [] OTHER -> f

\* option(f) for the option functions of src/: each sets the hash location.
applyOption(option, f) ==
    CASE option.name = "HashLocationStart" -> [f EXCEPT !.hashLocation = hashLocationStart]
      [] option.name = "HashLocationEnd" -> [f EXCEPT !.hashLocation = hashLocationEnd]
      [] option.name = "HashLocationFirstPeriod" ->
            [f EXCEPT !.hashLocation = hashLocationFirstPeriod]
      [] OTHER -> applyConfigOption(option, f)

\* A faulty NewFS: the loop over the options is missing.
applyOptions_noneApplied(opts, f) == f

\* NewFS, lines 54-56 and 355-357: every option applied in order.
RECURSIVE applyOptions(_, _)
applyOptions(opts, f) ==
    IF opts = << >> THEN f ELSE applyOptions(Tail(opts), applyOption(Head(opts), f))

\* NewFS: the fields of the FS it builds, hashLocationDefault and the
\* options applied to it.
NewFSFields(opts) ==
    applyOptions(opts, [hashLocation |-> hashLocationDefault] @@ DefaultConfigFields)

NewFSHashLocation(opts) == NewFSFields(opts).hashLocation

NoOptions == << >>
ExplicitOptions == { << Option(o, 0) >> : o \in OptionNames }

\* The option lists of the tests of hash length, max-age and hash algorithm.
HashLengths == { 0, 8, Sha256HexLen, Sha256HexLen + 6 }
ConfigOptions ==
    { << Option("HashLength", n) >> : n \in HashLengths }
        \cup { << Option("MaxAge", d) >> : d \in { WeekMaxAge, 0, 0 - WeekMaxAge } }
        \cup { << Option("HashAlgo", h) >> : h \in { MD5, SHA1, SHA256 } }

NoNameCall == [fn |-> "none"]

\* NewFS(fsys, opts...) for opts in optionLists, and n goroutines to call the
\* FS: empty maps, an unlocked mutex, the fields the options leave. After a
\* panic in NewFS there is no FS to call.
NewFSCalledBy(optionLists, n) ==
    /\ revision \in { "legacy", "rewrite" }
    /\ options \in optionLists
    /\ hashLocation = NewFSHashLocation(options)
    /\ hashLength = NewFSFields(options).hashLength
    /\ maxAge = NewFSFields(options).maxAge
    /\ hashAlgo = NewFSFields(options).hashAlgo
    /\ nameCall = NoNameCall
    /\ mu = Unlocked
    /\ m = << >>
    /\ r = << >>
    /\ pathToHashPath = << >>
    /\ hashPathReverse = << >>
    /\ crashed = NewFSFields(options).panicked
    /\ gs = [g \in { IdleGoroutine } |-> n]
    /\ nreads = [p \in DOMAIN Files |-> 0]
    /\ raced = [p \in DOMAIN Files |-> FALSE]

\* The FS is called by NumThreads goroutines.
NewFS(optionLists) == NewFSCalledBy(optionLists, NumThreads)

\* The FS under concurrent calls is built with one option naming the hash
\* location; built with none it is the first-period FS (InitNames has it).
Init == NewFS(ExplicitOptions)

\* ------------------------------------------------------------ sync.RWMutex

\* RLock returns when no writer holds the lock and none waits for it. After
\* an Unlock that the run-time check let through on a lock that was not
\* write-held (MuBadUnlock), readers are let in past a waiting writer.
CanRLock == ~mu.writer /\ (~mu.pending \/ mu.corrupt)

MuRLock == [mu EXCEPT !.readers = @ + 1]
MuRUnlock == [mu EXCEPT !.readers = @ - 1]

\* A return that leaves the read lock held: the hold is never released.
MuLeak == [mu EXCEPT !.readers = @ - 1, !.leaked = Min(@ + 1, MaxLeaked)]

\* Lock first excludes other writers and announces itself to the readers
\* (MuAnnounce), then waits until no reader holds the lock (CanAcquire); the
\* goroutine at pc "hn_wait" or "c_wait" is the one that announced.
CanAnnounce == ~mu.writer /\ ~mu.pending
MuAnnounce == [mu EXCEPT !.pending = TRUE]

\* A faulty Lock: it returns without waiting for the readers to leave.
CanAcquire_readersIgnored == mu.pending

CanAcquire == mu.pending /\ mu.readers + mu.leaked = 0
MuAcquire == [mu EXCEPT !.writer = TRUE, !.pending = FALSE]
MuUnlock == [mu EXCEPT !.writer = FALSE]

\* Unlock by a goroutine that holds the lock for reading. With no writer
\* waiting, sync ends the process: "fatal error: sync: Unlock of unlocked
\* RWMutex". With a writer waiting the check passes: the writer's
\* announcement is undone, the writer sleeps on, and the caller's read hold
\* is never released.
BadUnlockIsFatal == ~mu.pending
MuBadUnlock ==
    [mu EXCEPT !.pending = FALSE, !.corrupt = TRUE,
               !.readers = @ - 1, !.leaked = Min(@ + 1, MaxLeaked)]

Idle(g) == g.pc \in { "idle", "done" }

\* A fatal run-time error in goroutine g ends the process: no goroutine takes
\* another step, no call in progress returns, the lock and the locals of the
\* goroutines are gone with it. What the maps held is kept for reference.
Fatal(g) ==
    /\ crashed' = TRUE
    /\ gs' = SetToBag({ [IdleGoroutine EXCEPT !.pc = "fatal", !.op = g.op, !.arg = g.arg,
                                                !.warm = g.warm, !.url = g.url,
                                                !.method = g.method] })
                (+) [d \in { [IdleGoroutine EXCEPT !.pc = "dead"] } |-> NumThreads - 1]
    /\ mu' = Unlocked

\* Goroutine u has missed path p in the forward lookup and has not finished
\* inserting it.
Inserting(u, p) ==
    /\ u.pc \in { "hn_read", "hn_lock", "hn_wait", "hn_r",
                  "c_read", "c_lock", "c_wait", "c_asleep", "c_r" }
    /\ u.tl.name = p

MarkRace(g, p) ==
    IF p \in DOMAIN Files
    THEN [raced EXCEPT ![p] = @ \/ \E u \in Others(g) : Inserting(u, p)]
    ELSE raced

\* ------------------------------------------------------ legacy: HashName

\* What open (legacy, lines 72-77) does with the answer s of HashName(base):
\* the underlying file is opened when s is the requested name, the requested
\* name otherwise; the parsed hash is returned either way.
OpenAfterHashName(g, s) ==
    LET name == IF s = g.arg THEN g.ol.base ELSE g.arg
        o == Open(name)
    IN [kind |-> "file", f |-> o.f, hash |-> g.ol.hash, err |-> o.err]

\* Where open returns to: into ServeHTTP (legacy line 213, rewrite line 686)
\* when the handler called it, to the caller of open otherwise.
AfterOpen(g) == IF g.op = "ServeHTTP" THEN "h_open" ELSE "done"

\* HashName returns s: to the caller of HashName, or into open.
HashNameReturn(g, s) ==
    [g EXCEPT !.pc = IF g.op = "HashName" THEN "done" ELSE AfterOpen(g), !.tl = NoLocals,
              !.ret = IF g.op = "HashName"
                      THEN [kind |-> "path", path |-> s, err |-> FALSE]
                      ELSE OpenAfterHashName(g, s)]

\* A faulty forward lookup: it consults the reverse map, whose keys are hash
\* names.
mLookup_reverseMap(name) == IF name \in DOMAIN r THEN r[name][1] ELSE Str0

\* A faulty forward lookup: the key is not compared, any cached name is
\* returned.
mLookup_anyEntry(name) ==
    IF DOMAIN m # { } THEN m[CHOOSE k \in DOMAIN m : TRUE] ELSE Str0

\* line 85: fsys.m[name], the empty string when the map has no such key.
mLookup(name) == IF name \in DOMAIN m THEN m[name] ELSE Str0

\* A faulty error return: the empty string in place of the name.
HashNameOnReadError_empty(name) == Str0

\* lines 93-95: what HashName returns when fs.ReadFile failed.
HashNameOnReadError(name) == name

\* A goroutine calls fsys.HashName(name); line 84: fsys.mu.RLock().
HashName_RLock ==
    /\ revision = "legacy" /\ ~crashed
    /\ CanRLock
    /\ \E g \in Goroutines, name \in TranslateInputs :
          /\ Idle(g)
          /\ Step(g, [IdleGoroutine EXCEPT !.pc = "hn_lookup", !.op = "HashName",
                                           !.arg = name, !.tl.name = name])
    /\ mu' = MuRLock
    /\ UNCHANGED << config, legacyMaps, rewriteMaps, crashed, history >>

\* lines 85-89: the forward lookup under the read lock, and RUnlock.
HashName_Lookup ==
    /\ revision = "legacy" /\ ~crashed
    /\ \E g \in Goroutines :
          /\ g.pc = "hn_lookup"
          /\ LET name == g.tl.name
                 s == mLookup(name)
             IN IF s # Str0
                THEN /\ Step(g, HashNameReturn(g, s))
                     /\ UNCHANGED raced
                ELSE /\ Step(g, [g EXCEPT !.pc = "hn_read"])
                     /\ raced' = MarkRace(g, name)
    /\ mu' = MuRUnlock
    /\ UNCHANGED << config, legacyMaps, rewriteMaps, crashed, nreads >>

\* lines 92-100: fs.ReadFile, sha256, hex, FormatName; no lock is held.
HashName_Read ==
    /\ revision = "legacy" /\ ~crashed
    /\ \E g \in Goroutines :
          /\ g.pc = "hn_read"
          /\ LET name == g.tl.name
                 rf == ReadFile(name)
                 hashhex == EncodedSum256(rf.buf)
                 hashname == FormatName(name, hashhex, hashLocation)
             IN IF rf.err
                THEN /\ Step(g, HashNameReturn(g, HashNameOnReadError(name)))
                     /\ UNCHANGED nreads
                ELSE /\ Step(g, [g EXCEPT !.pc = "hn_lock",
                                         !.tl = [name |-> name, hashhex |-> hashhex,
                                                 hashname |-> hashname, key |-> hashname]])
                     /\ nreads' = [nreads EXCEPT ![name] = @ + 1]
    /\ UNCHANGED << config, mu, legacyMaps, rewriteMaps, crashed, raced >>

\* line 103: fsys.mu.Lock() is called; the writer waits for the readers.
HashName_Lock ==
    /\ revision = "legacy" /\ ~crashed
    /\ CanAnnounce
    /\ \E g \in Goroutines :
          /\ g.pc = "hn_lock"
          /\ Step(g, [g EXCEPT !.pc = "hn_wait"])
    /\ mu' = MuAnnounce
    /\ UNCHANGED << config, legacyMaps, rewriteMaps, crashed, history >>

\* lines 103-104: Lock returns, fsys.m[name] = hashname.
HashName_StoreM ==
    /\ revision = "legacy" /\ ~crashed
    /\ CanAcquire
    /\ \E g \in Goroutines :
          /\ g.pc = "hn_wait"
          /\ m' = (g.tl.name :> g.tl.hashname) @@ m
          /\ Step(g, [g EXCEPT !.pc = "hn_r"])
    /\ mu' = MuAcquire
    /\ UNCHANGED << config, r, rewriteMaps, crashed, history >>

\* lines 105-108: fsys.r[hashname] = [2]string{name, hashhex}, Unlock, return.
HashName_StoreR ==
    /\ revision = "legacy" /\ ~crashed
    /\ \E g \in Goroutines :
          /\ g.pc = "hn_r"
          /\ r' = (g.tl.key :> << g.tl.name, g.tl.hashhex >>) @@ r
          /\ Step(g, HashNameReturn(g, g.tl.hashname))
    /\ mu' = MuUnlock
    /\ UNCHANGED << config, m, rewriteMaps, crashed, history >>

\* ---------------------------------------------- legacy: ParseName and open

\* A goroutine calls open(name), which (line 71) calls the method
\* fsys.ParseName; line 148: RLock.
ParseName_RLock ==
    /\ revision = "legacy" /\ ~crashed
    /\ CanRLock
    /\ \E g \in Goroutines, name \in ResolveInputs :
          /\ Idle(g)
          /\ Step(g, [IdleGoroutine EXCEPT !.pc = "pn_lookup", !.op = "open", !.arg = name,
                                           !.warm = \E p \in DOMAIN m : m[p] = name])
    /\ mu' = MuRLock
    /\ UNCHANGED << config, legacyMaps, rewriteMaps, crashed, history >>

\* lines 151-155 and the deferred RUnlock: the reverse lookup, else the
\* parser by shape. Then open's line 72: with no hash the name is opened as
\* it is (lines 76-77), with a hash HashName(base) is called next.
ParseName_Lookup ==
    /\ revision = "legacy" /\ ~crashed
    /\ \E g \in Goroutines :
          /\ g.pc = "pn_lookup"
          /\ LET filename == g.arg
                 ok == filename \in DOMAIN r
                 parsed == IF ok
                           THEN [base |-> r[filename][1], hash |-> r[filename][2], ok |-> TRUE]
                           ELSE [base |-> ParseName(filename).base,
                                 hash |-> ParseName(filename).hash, ok |-> FALSE]
                 o == Open(filename)
             IN IF parsed.hash # Str0
                THEN Step(g, [g EXCEPT !.pc = "o_hashname", !.ol = parsed])
                ELSE Step(g, [g EXCEPT !.pc = AfterOpen(g), !.ol = parsed,
                                       !.ret = [kind |-> "file", f |-> o.f,
                                                hash |-> Str0, err |-> o.err]])
    /\ mu' = MuRUnlock
    /\ UNCHANGED << config, legacyMaps, rewriteMaps, crashed, history >>

\* line 72: open calls fsys.HashName(base); line 84: RLock.
open_HashName ==
    /\ revision = "legacy" /\ ~crashed
    /\ CanRLock
    /\ \E g \in Goroutines :
          /\ g.pc = "o_hashname"
          /\ Step(g, [g EXCEPT !.pc = "hn_lookup", !.tl.name = g.ol.base])
    /\ mu' = MuRLock
    /\ UNCHANGED << config, legacyMaps, rewriteMaps, crashed, history >>

\* --------------------------------------- rewrite: GetHashPath, createHashedPath

\* GetHashPath(originalPath), the exported translate call of the rewrite (the
\* tests and the README call it; its body is not part of src/): it returns
\* what createHashedPath returned, and originalPath when that was an error.
\* It returns a string and nothing else.
GetHashPath(originalPath, filepathWithHash, err) ==
    IF err THEN originalPath ELSE filepathWithHash

\* createHashedPath returns (filepathWithHash, err) into GetHashPath.
createHashedPathReturn(g, filepathWithHash, err) ==
    [g EXCEPT !.pc = "done", !.tl = NoLocals,
              !.ret = [kind |-> "path",
                       path |-> GetHashPath(g.arg, filepathWithHash, err),
                       err |-> FALSE]]

\* A faulty forward lookup: it asks the reverse map.
pathToHashPathHas_reverseMap(filepath) == filepath \in DOMAIN hashPathReverse

\* line 371: exists of filepathWithHash, exists := hf.pathToHashPath[filepath].
pathToHashPathHas(filepath) == filepath \in DOMAIN pathToHashPath

\* A goroutine calls GetHashPath(filepath); line 370: hf.mu.RLock().
createHashedPath_RLock ==
    /\ revision = "rewrite" /\ ~crashed
    /\ CanRLock
    /\ \E g \in Goroutines, filepath \in TranslateInputs :
          /\ Idle(g)
          /\ Step(g, [IdleGoroutine EXCEPT !.pc = "c_lookup", !.op = "GetHashPath",
                                           !.arg = filepath, !.tl.name = filepath])
    /\ mu' = MuRLock
    /\ UNCHANGED << config, legacyMaps, rewriteMaps, crashed, history >>

\* lines 371-376: the forward lookup. A hit returns at line 374 without
\* RUnlock: the read lock stays held. A miss releases it at line 376.
createHashedPath_Lookup ==
    /\ revision = "rewrite" /\ ~crashed
    /\ \E g \in Goroutines :
          /\ g.pc = "c_lookup"
          /\ LET filepath == g.tl.name
                 exists == pathToHashPathHas(filepath)
             IN IF exists
                THEN /\ mu' = MuLeak
                     /\ Step(g, createHashedPathReturn(g, pathToHashPath[filepath], FALSE))
                     /\ UNCHANGED raced
                ELSE /\ mu' = MuRUnlock
                     /\ Step(g, [g EXCEPT !.pc = "c_read"])
                     /\ raced' = MarkRace(g, filepath)
    /\ UNCHANGED << config, legacyMaps, rewriteMaps, crashed, nreads >>

\* lines 380-398: fs.ReadFile, sha256, hex, path.Split, addHashToFilname,
\* path.Join; no lock is held. A read error returns ("", err) at line 382.
createHashedPath_Read ==
    /\ revision = "rewrite" /\ ~crashed
    /\ \E g \in Goroutines :
          /\ g.pc = "c_read"
          /\ LET filepath == g.tl.name
                 rf == ReadFile(filepath)
                 encodedHash == EncodedSum256(rf.buf)
                 sp == PathSplit(filepath)
                 fileNameWithHash == addHashToFilname(sp.file, encodedHash, hashLocation)
                 filepathWithHash == PathJoin(sp.dir, fileNameWithHash)
             IN IF rf.err
                THEN /\ Step(g, createHashedPathReturn(g, Str0, TRUE))
                     /\ UNCHANGED nreads
                ELSE /\ Step(g, [g EXCEPT !.pc = "c_lock",
                                         !.tl = [name |-> filepath,
                                                 hashhex |-> encodedHash,
                                                 hashname |-> filepathWithHash,
                                                 key |-> fileNameWithHash]])
                     /\ nreads' = [nreads EXCEPT ![filepath] = @ + 1]
    /\ UNCHANGED << config, mu, legacyMaps, rewriteMaps, crashed, raced >>

\* line 401: hf.mu.Lock() is called; the writer waits for the readers.
createHashedPath_Lock ==
    /\ revision = "rewrite" /\ ~crashed
    /\ CanAnnounce
    /\ \E g \in Goroutines :
          /\ g.pc = "c_lock"
          /\ Step(g, [g EXCEPT !.pc = "c_wait"])
    /\ mu' = MuAnnounce
    /\ UNCHANGED << config, legacyMaps, rewriteMaps, crashed, history >>

\* lines 401-402: Lock returns, hf.pathToHashPath[filepath] = filepathWithHash.
createHashedPath_StoreForward ==
    /\ revision = "rewrite" /\ ~crashed
    /\ CanAcquire
    /\ \E g \in Goroutines :
          /\ g.pc = "c_wait"
          /\ pathToHashPath' = (g.tl.name :> g.tl.hashname) @@ pathToHashPath
          /\ Step(g, [g EXCEPT !.pc = "c_r"])
    /\ mu' = MuAcquire
    /\ UNCHANGED << config, legacyMaps, hashPathReverse, crashed, history >>

\* lines 403-406: hf.hashPathReverse[fileNameWithHash] = reverse{filepath,
\* encodedHash}, Unlock, return.
createHashedPath_StoreReverse ==
    /\ revision = "rewrite" /\ ~crashed
    /\ \E g \in Goroutines :
          /\ g.pc = "c_r"
          /\ hashPathReverse' =
                (g.tl.key :> [originalFilepath |-> g.tl.name, hash |-> g.tl.hashhex])
                   @@ hashPathReverse
          /\ Step(g, createHashedPathReturn(g, g.tl.hashname, FALSE))
    /\ mu' = MuUnlock
    /\ UNCHANGED << config, legacyMaps, pathToHashPath, crashed, history >>

\* ------------------------------------- rewrite: lookupFromHashedPath and open

\* A goroutine calls open(filepathWithHash), which (line 487) calls
\* lookupFromHashedPath; line 465: hf.mu.RLock().
lookupFromHashedPath_RLock ==
    /\ revision = "rewrite" /\ ~crashed
    /\ CanRLock
    /\ \E g \in Goroutines, filepathWithHash \in ResolveInputs :
          /\ Idle(g)
          /\ Step(g, [IdleGoroutine EXCEPT !.pc = "l_lookup", !.op = "open",
                                           !.arg = filepathWithHash,
                                           !.warm = \E p \in DOMAIN pathToHashPath :
                                                       pathToHashPath[p] = filepathWithHash])
    /\ mu' = MuRLock
    /\ UNCHANGED << config, legacyMaps, rewriteMaps, crashed, history >>

\* lines 468-473: (filepath, hash, true) of the reverse entry stored under
\* filepathWithHash, and ("", "", false) when there is none.
lookupFromHashedPath(filepathWithHash) ==
    LET ok == filepathWithHash \in DOMAIN hashPathReverse
    IN [base |-> IF ok THEN hashPathReverse[filepathWithHash].originalFilepath ELSE Str0,
        hash |-> IF ok THEN hashPathReverse[filepathWithHash].hash ELSE Str0,
        ok |-> ok]

\* lines 488-493: open opens the path the lookup answered, the requested
\* path when it answered none, and returns the file with the hash.
openResult(filepathWithHash, found) ==
    LET filepath == IF found.ok THEN found.base ELSE filepathWithHash
        o == Open(filepath)
    IN [kind |-> "file", f |-> o.f, hash |-> found.hash, err |-> o.err]

\* lines 468-473: the reverse lookup under the read lock. On return the
\* deferred call of line 466 runs, and it is hf.mu.Unlock(), on a lock this
\* goroutine holds for reading: the process ends there with sync's fatal
\* error unless a writer is waiting. When the check passes, the waiting
\* writer is left asleep and open goes on (lines 488-493).
lookupFromHashedPath_Lookup ==
    /\ revision = "rewrite" /\ ~crashed
    /\ \E g \in Goroutines :
          /\ g.pc = "l_lookup"
          /\ IF BadUnlockIsFatal
             THEN Fatal(g)
             ELSE /\ mu' = MuBadUnlock
                  /\ \E w \in Others(g) :
                        /\ w.pc = "c_wait"
                        /\ gs' = (gs (-) SetToBag({ g, w }))
                                    (+) SetToBag({ [g EXCEPT !.pc = AfterOpen(g),
                                                             !.ol = lookupFromHashedPath(g.arg),
                                                             !.ret = openResult(g.arg, lookupFromHashedPath(g.arg))],
                                                   [w EXCEPT !.pc = "c_asleep"] })
                  /\ UNCHANGED crashed
    /\ UNCHANGED << config, legacyMaps, rewriteMaps, history >>

\* ---------------------------------------------------------- specification

Next ==
    \/ HashName_RLock
    \/ HashName_Lookup
    \/ HashName_Read
    \/ HashName_Lock
    \/ HashName_StoreM
    \/ HashName_StoreR
    \/ ParseName_RLock
    \/ ParseName_Lookup
    \/ open_HashName
    \/ createHashedPath_RLock
    \/ createHashedPath_Lookup
    \/ createHashedPath_Read
    \/ createHashedPath_Lock
    \/ createHashedPath_StoreForward
    \/ createHashedPath_StoreReverse
    \/ lookupFromHashedPath_RLock
    \/ lookupFromHashedPath_Lookup

Spec == Init /\ [][Next]_vars

\* ------------------------------------------------------ the HTTP handler

\* The max-age both handlers write into Cache-Control (legacy line 235,
\* rewrite line 708).
CacheControlMaxAge == 31536000

\* A header value that was not set.
NoHeader == << >>

\* The Cache-Control value of lines 235 and 708, `public, max-age=31536000`,
\* as its directives in order.
CacheControlHeader == << << "public" >>, << "max-age", CacheControlMaxAge >> >>

\* The ETag value of lines 236 and 709: "\"" + hash + "\"".
ETagHeader(hash) == << "\"" >> \o hash \o << "\"" >>

\* The request paths: the root, a directory, a file by its own path, a path
\* of no file, a path that leaves the root, a file whose name has the shape
\* of a hash name, and the hash paths translate hands out.
URLs ==
    { << "/" >>, << "/" >> \o SubDir \o << "/" >>, << "/" >> \o SubFile,
      << "/" >> \o MissingFile, << "/", ".", "." >>, << "/" >> \o StaleFile }
        \cup { << "/" >> \o h : h \in HashPaths }

\* The request methods.
Methods == { "GET", "HEAD" }

\* fi.Size() of a file with content buf: the contents of the model have two
\* bytes each.
Size(buf) == 2

\* ServeHTTP, lines 204-210 and 677-683: the file name of a URL path.
URLFilename(urlPath) ==
    PathClean(IF urlPath = << "/" >> THEN << "." >>
              ELSE IF urlPath[1] = "/" THEN Tail(urlPath) ELSE urlPath)

\* What ServeHTTP answers once open returned o (lines 214-252, 687-725):
\* 404 for a file that does not exist, 500 for another error of open or of
\* Stat, 403 for a directory; else the headers, when open returned a hash,
\* and the content. Both ways of writing the content (http.ServeContent for
\* a file that can seek, lines 241-252 otherwise) write Content-Length and
\* status 200, and the content unless the method is HEAD. served is the path
\* of the file handle, hash the hash open returned.
Response(o, statErr, method) ==
    LET base == [kind |-> "response", cacheControl |-> NoHeader, etag |-> NoHeader,
                 served |-> o.f, hash |-> o.hash, statErr |-> FALSE]
    IN IF o.err = "ErrNotExist"
       THEN base @@ [status |-> 404, body |-> "404 page not found"]
       ELSE IF o.err # "nil"
       THEN base @@ [status |-> 500, body |-> "500 Internal Server Error"]
       ELSE IF statErr
       THEN [base EXCEPT !.statErr = TRUE]
                @@ [status |-> 500, body |-> "500 Internal Server Error"]
       ELSE IF o.f \in Dirs
       THEN base @@ [status |-> 403, body |-> "403 Forbidden"]
       ELSE [base EXCEPT !.cacheControl = IF o.hash # Str0 THEN CacheControlHeader ELSE NoHeader,
                         !.etag = IF o.hash # Str0 THEN ETagHeader(o.hash) ELSE NoHeader]
                @@ [status |-> 200, contentLength |-> Size(Files[o.f]),
                    body |-> IF method = "HEAD" THEN "" ELSE Files[o.f]]

\* legacy: a request arrives; ServeHTTP (lines 204-213) cleans the file name
\* and calls open, which calls fsys.ParseName; line 148: RLock.
ServeHTTP_ParseName_RLock ==
    /\ revision = "legacy" /\ ~crashed
    /\ CanRLock
    /\ \E g \in Goroutines, urlPath \in URLs, method \in Methods :
          /\ Idle(g)
          /\ Step(g, [IdleGoroutine EXCEPT !.pc = "pn_lookup", !.op = "ServeHTTP",
                                           !.method = method,
                                           !.url = urlPath, !.arg = URLFilename(urlPath),
                                           !.warm = \E p \in DOMAIN m :
                                                       m[p] = URLFilename(urlPath)])
    /\ mu' = MuRLock
    /\ UNCHANGED << config, legacyMaps, rewriteMaps, crashed, history >>

\* rewrite: a request arrives; ServeHTTP (lines 677-686) cleans the file
\* name and calls open, which calls lookupFromHashedPath; line 465: RLock.
ServeHTTP_lookupFromHashedPath_RLock ==
    /\ revision = "rewrite" /\ ~crashed
    /\ CanRLock
    /\ \E g \in Goroutines, urlPath \in URLs, method \in Methods :
          /\ Idle(g)
          /\ Step(g, [IdleGoroutine EXCEPT !.pc = "l_lookup", !.op = "ServeHTTP",
                                           !.method = method,
                                           !.url = urlPath, !.arg = URLFilename(urlPath),
                                           !.warm = \E p \in DOMAIN pathToHashPath :
                                                       pathToHashPath[p] = URLFilename(urlPath)])
    /\ mu' = MuRLock
    /\ UNCHANGED << config, legacyMaps, rewriteMaps, crashed, history >>

\* open has returned into ServeHTTP (lines 214-252, 687-725): the response
\* is written. Stat of the opened file fails or not.
ServeHTTP_Respond ==
    /\ ~crashed
    /\ \E g \in Goroutines, statErr \in BOOLEAN :
          /\ g.pc = "h_open"
          /\ Step(g, [g EXCEPT !.pc = "done", !.ret = Response(g.ret, statErr, g.method)])
    /\ UNCHANGED << config, mu, legacyMaps, rewriteMaps, crashed, history >>

\* The handler of FileServer(fsys) under concurrent requests, with translate
\* calls alongside.
NextHTTP ==
    \/ HashName_RLock
    \/ HashName_Lookup
    \/ HashName_Read
    \/ HashName_Lock
    \/ HashName_StoreM
    \/ HashName_StoreR
    \/ ServeHTTP_ParseName_RLock
    \/ ParseName_Lookup
    \/ open_HashName
    \/ createHashedPath_RLock
    \/ createHashedPath_Lookup
    \/ createHashedPath_Read
    \/ createHashedPath_Lock
    \/ createHashedPath_StoreForward
    \/ createHashedPath_StoreReverse
    \/ ServeHTTP_lookupFromHashedPath_RLock
    \/ lookupFromHashedPath_Lookup
    \/ ServeHTTP_Respond

SpecHTTP == Init /\ [][NextHTTP]_vars

\* ------------------------------------------- the name functions on their own

\* The names and hashes the name functions are called with: every string of
\* letters and periods up to MaxNameLen characters, the empty one included;
\* no hash, a short hash and a digest.
RECURSIVE NamesOfLen(_)
NamesOfLen(n) ==
    IF n = 0 THEN { Str0 }
    ELSE { Append(w, c) : w \in NamesOfLen(n - 1), c \in { "a", "." } }

Filenames == UNION { NamesOfLen(n) : n \in 0..MaxNameLen }
Hashes == { Str0, << "0", "f" >>, EncodedSum256("K1") }

\* legacy: FormatName(filename, hash, fsys.hl) is called (HashName line 100).
FormatName_Call ==
    /\ revision = "legacy"
    /\ \E filename \in Filenames, hash \in Hashes :
          nameCall' = [fn |-> "FormatName", filename |-> filename, hash |-> hash,
                       out |-> FormatName(filename, hash, hashLocation)]
    /\ UNCHANGED << fields, mu, legacyMaps, rewriteMaps, crashed, gs, history >>

\* rewrite: hf.addHashToFilname(filename, hash) is called (createHashedPath
\* line 395).
addHashToFilname_Call ==
    /\ revision = "rewrite"
    /\ \E filename \in Filenames, hash \in Hashes :
          nameCall' = [fn |-> "addHashToFilname", filename |-> filename, hash |-> hash,
                       out |-> addHashToFilname(filename, hash, hashLocation)]
    /\ UNCHANGED << fields, mu, legacyMaps, rewriteMaps, crashed, gs, history >>

InitNames == NewFS(ExplicitOptions \cup { NoOptions })

NextNames ==
    \/ FormatName_Call
    \/ addHashToFilname_Call

SpecNames == InitNames /\ [][NextNames]_vars

\* ------------------------------------- translate's making of the hashed path

\* The directories translate is called with paths of: none, a plain one, one
\* with a period in its name (the tests have testdata/sub.dir.2), and a
\* nested one whose elements both have periods.
PathDirs ==
    { Str0, << "a", "/" >>, << "a", ".", "b", "/" >>,
      << ".", "a", "/", "b", ".", "c", "/" >> }

\* The paths whose read succeeds: a directory and a filename that fs.ReadFile
\* accepts (no element is ".", ".." or empty).
ReadablePaths ==
    { p \in { d \o f : d \in PathDirs, f \in Filenames \ { Str0 } } : ValidPath(p) }

\* What the files hold.
Contents == { "K1", "K2" }

\* legacy: HashName(name) has read buf (line 92) and makes the hash name,
\* lines 97-100: sha256.Sum256, hex.EncodeToString, FormatName.
HashName_Format ==
    /\ revision = "legacy"
    /\ \E name \in ReadablePaths, buf \in Contents :
          LET hashhex == EncodedSum256(buf)
          IN nameCall' = [fn |-> "HashName", filename |-> name, hash |-> hashhex,
                          out |-> FormatName(name, hashhex, hashLocation)]
    /\ UNCHANGED << fields, mu, legacyMaps, rewriteMaps, crashed, gs, history >>

\* rewrite: createHashedPath(filepath) has read b (line 380) and makes the
\* hashed path, lines 387-398: sha256.Sum256, hex.EncodeToString, path.Split,
\* addHashToFilname, path.Join.
createHashedPath_Format ==
    /\ revision = "rewrite"
    /\ \E filepath \in ReadablePaths, b \in Contents :
          LET encodedHash == EncodedSum256(b)
              sp == PathSplit(filepath)
              fileNameWithHash == addHashToFilname(sp.file, encodedHash, hashLocation)
          IN nameCall' = [fn |-> "createHashedPath", filename |-> filepath,
                          hash |-> encodedHash,
                          out |-> PathJoin(sp.dir, fileNameWithHash)]
    /\ UNCHANGED << fields, mu, legacyMaps, rewriteMaps, crashed, gs, history >>

InitPaths == NewFS(ExplicitOptions \cup { NoOptions })

NextPaths ==
    \/ HashName_Format
    \/ createHashedPath_Format

SpecPaths == InitPaths /\ [][NextPaths]_vars

\* --------------------------------------------- the parser by shape, alone

\* n times the character c.
Run(c, n) == [i \in 1..n |-> c]

\* What follows the stem of the names ParseName is called with: nothing; a
\* dash and 64 hex digits; a dash and 63, and 65, hex digits; a dash, 64 hex
\* digits and a letter that is no hex digit; a dash and 64 upper-case
\* digits; 64 hex digits without the dash.
ParseTails ==
    { Str0,
      << "-" >> \o Run("d", Sha256HexLen),
      << "-" >> \o Run("d", Sha256HexLen - 1),
      << "-" >> \o Run("d", Sha256HexLen + 1),
      << "-" >> \o Run("d", Sha256HexLen) \o << "z" >>,
      << "-" >> \o Run("D", Sha256HexLen),
      Run("d", Sha256HexLen) }

\* The names ParseName is called with: in a directory or not, a stem with or
\* without a dash of its own, one of the tails, and no, one or two
\* extensions; and the empty name.
ParseInputs ==
    { Str0 } \cup
    { d \o s \o t \o e : d \in { Str0, << "a", "/" >> },
                         s \in { << "s" >>, << "s", "-", "t" >> },
                         t \in ParseTails,
                         e \in { Str0, << ".", "j" >>, << ".", "m", ".", "j" >> } }

\* The package function ParseName(filename) is called (lines 159-179).
ParseName_Call ==
    /\ revision = "legacy"
    /\ \E filename \in ParseInputs :
          nameCall' = [fn |-> "ParseName", filename |-> filename, hash |-> Str0,
                       out |-> ParseName(filename)]
    /\ UNCHANGED << fields, mu, legacyMaps, rewriteMaps, crashed, gs, history >>

\* ParseName is called with the first-period name FormatName made of a
\* filename and a digest.
ParseName_FormatName_Call ==
    /\ revision = "legacy"
    /\ \E filename \in Filenames \ { Str0 }, buf \in { "K1", "K2" } :
          LET hash == EncodedSum256(buf)
          IN nameCall' = [fn |-> "ParseName(FormatName)", filename |-> filename,
                          hash |-> hash,
                          out |-> ParseName(FormatName(filename, hash,
                                                       hashLocationFirstPeriod))]
    /\ UNCHANGED << fields, mu, legacyMaps, rewriteMaps, crashed, gs, history >>

InitParse == NewFS(ExplicitOptions \cup { NoOptions }) /\ revision = "legacy"

NextParse ==
    \/ ParseName_Call
    \/ ParseName_FormatName_Call

SpecParse == InitParse /\ [][NextParse]_vars

\* ------------------------------------------- one goroutine, call after call

\* The FS called by a single goroutine, one translate call after the other
\* (as the tests call it): every lock hold there is, is this goroutine's.
InitSequential == NewFSCalledBy(ExplicitOptions, 1)

NextSequential ==
    \/ HashName_RLock
    \/ HashName_Lookup
    \/ HashName_Read
    \/ HashName_Lock
    \/ HashName_StoreM
    \/ HashName_StoreR
    \/ createHashedPath_RLock
    \/ createHashedPath_Lookup
    \/ createHashedPath_Read
    \/ createHashedPath_Lock
    \/ createHashedPath_StoreForward
    \/ createHashedPath_StoreReverse

SpecSequential == InitSequential /\ [][NextSequential]_vars

\* ------------------------------------------------- the configured FS

\* translate calls on an FS built with no option or with one of the options
\* of hash length, max-age and hash algorithm. The tests give these options
\* to the FS of GetHashPath, the rewrite.
InitConfig == NewFS(ConfigOptions \cup { NoOptions }) /\ revision = "rewrite"

NextConfig ==
    \/ createHashedPath_RLock
    \/ createHashedPath_Lookup
    \/ createHashedPath_Read
    \/ createHashedPath_Lock
    \/ createHashedPath_StoreForward
    \/ createHashedPath_StoreReverse

SpecConfig == InitConfig /\ [][NextConfig]_vars

\* ------------------------------------------------------- views of the caches

TranslateOps == { "HashName", "GetHashPath" }

\* The forward cache and the reverse cache of the revision in use.
Forward == IF revision = "legacy" THEN m ELSE pathToHashPath

ReverseKeys == IF revision = "legacy" THEN DOMAIN r ELSE DOMAIN hashPathReverse

ReverseEntry(h) ==
    IF revision = "legacy"
    THEN [path |-> r[h][1], hash |-> r[h][2]]
    ELSE [path |-> hashPathReverse[h].originalFilepath, hash |-> hashPathReverse[h].hash]

\* The hex digest of the content of file p.
HashOf(p) == EncodedSum256(Files[p])

\* x occurs in h as a run of consecutive characters.
Contains(h, x) == \E i \in 1..(Len(h) - Len(x) + 1) : SubSeq(h, i, i + Len(x) - 1) = x

\* A goroutine's translate call of p has returned.
Translated(g, p) == g.pc = "done" /\ g.op \in TranslateOps /\ g.arg = p

\* A goroutine's open call of h has returned.
Resolved(g, h) == g.pc = "done" /\ g.op = "open" /\ g.arg = h

\* The number of goroutines that are in the state g.
Copies(bag, g) == IF g \in DOMAIN bag THEN bag[g] ELSE 0

\* --------------------------------------------------------------------- C1

\* C1: whenever no goroutine is inside the write-locked section, every file p
\* whose translate call has returned is a key of the forward cache, and for
\* every key p of the forward cache with value h the reverse cache holds an
\* entry under h itself, the full hashed path, whose original path is p and
\* whose hash is the digest of p, which occurs in h.
C1_ForwardAndReverseAgree ==
    ~mu.writer =>
        \A p \in DOMAIN Files :
            /\ (\E g \in Goroutines : Translated(g, p)) => p \in DOMAIN Forward
            /\ p \in DOMAIN Forward =>
                  /\ Forward[p] \in ReverseKeys
                  /\ ReverseEntry(Forward[p]).path = p
                  /\ ReverseEntry(Forward[p]).hash = HashOf(p)
                  /\ Contains(Forward[p], HashOf(p))

\* --------------------------------------------------------------------- C2

\* A goroutine holds the read lock: it is between RLock and the end of its
\* lookup.
HoldsReadLock(g) == g.pc \in { "hn_lookup", "pn_lookup", "c_lookup", "l_lookup" }

\* C2: while a goroutine holds the read lock, every value h of the forward
\* cache is a key of the reverse cache.
C2_ReaderSeesBothEntries ==
    (\E g \in Goroutines : HoldsReadLock(g)) =>
        \A p \in DOMAIN Forward : Forward[p] \in ReverseKeys

\* --------------------------------------------------------------------- C3

\* C3 as stated: no file is read (and hashed) more than once.
C3_ReadAtMostOnce == \A p \in DOMAIN Files : nreads[p] <= 1

\* C3 amended: a file is read more than once only when translate calls of it
\* raced, one missing the forward cache while another had missed it and not
\* yet inserted; and a goroutine is about to read a file that is already in
\* the forward cache only after such a race.
C3_ReadOnceUnlessRaced ==
    \A p \in DOMAIN Files :
        /\ nreads[p] > 1 => raced[p]
        /\ \A g \in Goroutines :
              (g.pc \in { "hn_read", "c_read" } /\ g.tl.name = p /\ p \in DOMAIN Forward)
                  => raced[p]

\* Two translate calls of one file raced, both read it, and it is cached.
C3_Witness == \E p \in DOMAIN Forward : nreads[p] > 1 /\ raced[p]

\* --------------------------------------------------------------------- C5

\* C5: a translate call of a path whose read fails has returned the path it
\* was given, and no error.
C5_ReadFailureReturnsPath ==
    \A g \in Goroutines :
        (g.pc = "done" /\ g.op \in TranslateOps /\ ReadFile(g.arg).err)
            => (g.ret.kind = "path" /\ g.ret.path = g.arg /\ ~g.ret.err)

\* A translate call of the missing path has returned.
C5_Witness == \E g \in Goroutines : Translated(g, MissingFile) /\ g.ret.path = MissingFile

\* --------------------------------------------------------------------- C6

\* Goroutine g takes this step.
Steps(g) == Copies(gs', g) < Copies(gs, g)

\* Goroutine g is in a translate call of a path whose read fails.
FailingTranslate(g) ==
    /\ g.pc \in { "hn_lookup", "hn_read", "hn_lock", "hn_wait", "hn_r",
                  "c_lookup", "c_read", "c_lock", "c_wait", "c_r" }
    /\ g.tl.name \notin DOMAIN Files

CachedOnlyAfterRead ==
    /\ \A p \in DOMAIN Forward : p \in DOMAIN Files /\ nreads[p] > 0
    /\ \A h \in ReverseKeys :
          ReverseEntry(h).path \in DOMAIN Files /\ nreads[ReverseEntry(h).path] > 0

\* C6: the forward cache has no key, and the reverse cache no entry, for a
\* path that was never read successfully; and no step of a translate call
\* whose read fails changes either cache.
C6_FailedReadCachesNothing ==
    /\ []CachedOnlyAfterRead
    /\ [][\A g \in Goroutines :
             (FailingTranslate(g) /\ Steps(g)) => UNCHANGED << legacyMaps, rewriteMaps >>]_vars

\* A translate call of the missing path has returned with something cached.
C6_Witness ==
    /\ \E g \in Goroutines : Translated(g, MissingFile)
    /\ DOMAIN Forward # { }

\* --------------------------------------------------------------------- C4

\* C4: an open call of a name that was a value h = Forward[p] of the forward
\* cache when it was made, once it has ended, has returned: without error, a
\* handle on the original file p (whose content is that of p) and the digest
\* of p, which is the hash occurring in h.
C4_RoundTrip ==
    \A g \in Goroutines :
        \A p \in DOMAIN Forward :
            (g.op = "open" /\ g.warm /\ g.arg = Forward[p] /\ g.pc \in { "done", "fatal" })
                => /\ g.pc = "done"
                   /\ g.ret.err = "nil"
                   /\ g.ret.f = p
                   /\ Files[g.ret.f] = Files[p]
                   /\ g.ret.hash = HashOf(p)
                   /\ Contains(g.arg, g.ret.hash)

\* --------------------------------------------------------------------- C7

\* C7: an open call that found no entry under the requested name in the
\* reverse cache has returned what opening the requested name itself gives,
\* and an empty hash.
C7_MissOpensRequestedPath ==
    \A g \in Goroutines :
        (Resolved(g, g.arg) /\ ~g.ol.ok)
            => /\ g.ret.hash = Str0
               /\ g.ret.f = Open(g.arg).f
               /\ g.ret.err = Open(g.arg).err

\* --------------------------------------------------------------------- C8

\* Goroutine g, at its forward lookup in a translate call of a cached path,
\* takes this step and the process goes on.
HitStep(g) ==
    /\ g.pc \in { "hn_lookup", "c_lookup" }
    /\ g.op \in TranslateOps
    /\ g.tl.name \in DOMAIN Forward
    /\ Steps(g)
    /\ ~crashed'

\* C8: every translate call of a file that has returned has returned the
\* value the forward cache holds for it; that value never changes; and a
\* translate call that starts when the path is cached returns that value at
\* its lookup, leaving both caches as they are.
C8_SecondTranslateSameAndAddsNothing ==
    /\ [](\A g \in Goroutines : \A p \in DOMAIN Files :
             Translated(g, p) => (p \in DOMAIN Forward /\ g.ret.path = Forward[p]))
    /\ [][\A p \in DOMAIN Forward : p \in DOMAIN Forward' /\ Forward'[p] = Forward[p]]_vars
    /\ [][\A g \in Goroutines :
             HitStep(g) =>
                /\ UNCHANGED << legacyMaps, rewriteMaps >>
                /\ \E g2 \in BagToSet(gs') :
                      /\ Translated(g2, g.arg)
                      /\ g2.ret.path = Forward[g.arg]
                      /\ Copies(gs', g2) > Copies(gs, g2)]_vars

\* Two translate calls of one file have returned, the same, after one read.
C8_Witness ==
    \E g \in Goroutines : \E p \in DOMAIN Files :
        Translated(g, p) /\ Copies(gs, g) >= 2 /\ nreads[p] = 1

\* --------------------------------------------------------------------- C9

\* C9: once the forward cache maps p to h and the reverse cache maps h to
\* (p, hash), every step leaves both entries in place with their values.
C9_PresentIsTerminal ==
    [][\A p \in DOMAIN Forward : \A h \in { Forward[p] } :
          (h \in ReverseKeys /\ ReverseEntry(h).path = p)
              => /\ p \in DOMAIN Forward' /\ Forward'[p] = h
                 /\ h \in ReverseKeys'
                 /\ ReverseEntry(h)' = ReverseEntry(h)]_vars

\* -------------------------------------------------------------------- C10

\* What one translate call of file p, alone, returns and caches.
SequentialHashPath(p) ==
    IF revision = "legacy" THEN LegacyHashName(p, hashLocation)
                           ELSE RewriteHashPath(p, hashLocation)

\* Goroutine g has read and hashed its file and not yet returned: it is
\* about to insert, or inserting.
AboutToInsert(g) ==
    g.pc \in { "hn_lock", "hn_wait", "hn_r", "c_lock", "c_wait", "c_asleep", "c_r" }

\* C10: goroutines about to insert the same path hold the same values to
\* insert; what a goroutine is about to insert for p is what one translate
\* call alone caches, and is what the caches hold for p when another
\* goroutine has inserted it already; and all translate calls of p that have
\* returned have returned that one value.
C10_RacingFirstTranslatesAgree ==
    /\ \A g1, g2 \in Goroutines :
          (AboutToInsert(g1) /\ AboutToInsert(g2) /\ g1.tl.name = g2.tl.name)
              => g1.tl = g2.tl
    /\ \A g \in Goroutines :
          AboutToInsert(g) =>
              /\ g.tl.hashname = SequentialHashPath(g.tl.name)
              /\ g.tl.hashhex = HashOf(g.tl.name)
              /\ g.tl.name \in DOMAIN Forward => Forward[g.tl.name] = g.tl.hashname
              /\ (g.tl.key \in ReverseKeys /\ ReverseEntry(g.tl.key).path = g.tl.name)
                    => ReverseEntry(g.tl.key).hash = g.tl.hashhex
    /\ \A p \in DOMAIN Forward : Forward[p] = SequentialHashPath(p)
    /\ \A g \in Goroutines : \A p \in DOMAIN Files :
          Translated(g, p) => g.ret.path = SequentialHashPath(p)

\* Two translate calls of one uncached file raced, both read it, both
\* inserted and both have returned.
C10_Witness ==
    \E g \in Goroutines : \E p \in DOMAIN Files :
        Translated(g, p) /\ Copies(gs, g) = 2 /\ nreads[p] = 2 /\ raced[p]

\* -------------------------------------------------------------------- C11

\* What translate answers for path p as a function of the configuration, the
\* path and the content alone: the hash path, and p itself when p cannot be
\* read.
TranslateResult(p) == IF ReadFile(p).err THEN p ELSE SequentialHashPath(p)

\* C11: every translate call that has returned, whatever calls came before
\* it and whatever the caches held, has returned the value that the
\* configuration, the path and the content fix; so any two instances of one
\* configuration over one content return the same value for the same path.
C11_TranslateIsDeterministic ==
    \A g \in Goroutines :
        (g.pc = "done" /\ g.op \in TranslateOps) => g.ret.path = TranslateResult(g.arg)

\* Translate calls of two different files have returned, the second one with
\* the first in the cache.
C11_Witness ==
    /\ \E g \in Goroutines : Translated(g, RootFile)
    /\ \E g \in Goroutines : Translated(g, SubFile)
    /\ { RootFile, SubFile } \subseteq DOMAIN Forward

\* -------------------------------------------------------------------- C12

\* C12: whenever no goroutine is inside the write-locked section, different
\* paths have different hash paths in the forward cache, every cached path
\* has a reverse entry pointing back to it, and the reverse cache has as many
\* entries as the forward cache.
C12_DistinctPathsDistinctEntries ==
    ~mu.writer =>
        /\ \A p, q \in DOMAIN Forward : p # q => Forward[p] # Forward[q]
        /\ \A p \in DOMAIN Forward : \E h \in ReverseKeys : ReverseEntry(h).path = p
        /\ Cardinality(ReverseKeys) = Cardinality(DOMAIN Forward)

\* ServeHTTP has written goroutine g's response.
Served(g) == g.op = "ServeHTTP" /\ g.pc = "done"

\* Goroutine g's request is over: its response is written, or the process
\* ended in it.
RequestEnded(g) == g.op = "ServeHTTP" /\ g.pc \in { "done", "fatal" }

\* The reverse lookup of goroutine g's request found an entry and the file
\* was served.
ServedFromReverseHit(g) == Served(g) /\ g.ol.ok /\ g.ret.status = 200

\* C13: ServeHTTP sets Cache-Control and ETag if and only if resolve returned
\* a hash obtained from a reverse-cache hit; a request served by opening the
\* requested path itself carries neither header.
C13_HeadersOnlyOnReverseHit ==
    \A g \in Goroutines :
        Served(g) =>
            /\ (g.ret.cacheControl # NoHeader /\ g.ret.etag # NoHeader)
                    <=> ServedFromReverseHit(g)
            /\ ~g.ol.ok => (g.ret.cacheControl = NoHeader /\ g.ret.etag = NoHeader)

\* C14: when the request path resolves through the reverse cache, the
\* Cache-Control header is exactly public, max-age=<configured seconds>,
\* immutable, and the ETag header is exactly the hash of the reverse entry
\* of the requested hash path.
C14_HeaderValuesOnReverseHit ==
    \A g \in Goroutines :
        ServedFromReverseHit(g) =>
            /\ g.ret.cacheControl
                  = << << "public" >>, << "max-age", maxAge >>, << "immutable" >> >>
            /\ g.arg \in ReverseKeys
            /\ g.ret.etag = ReverseEntry(g.arg).hash

\* C15: the content is returned with the Cache-Control and ETag headers only
\* when the hash carried in the requested name is the hash of the content of
\* the file served.
C15_HeadersOnlyForVerifiedHash ==
    \A g \in Goroutines :
        (Served(g) /\ (g.ret.cacheControl # NoHeader \/ g.ret.etag # NoHeader)) =>
            /\ g.ret.status = 200
            /\ Contains(g.arg, HashOf(g.ret.served))

\* The requested name is no key of the reverse cache and no file or
\* directory of the backing file system, and it is a path the file system
\* can be asked for.
NotFound(name) ==
    /\ name \notin ReverseKeys
    /\ name \notin DOMAIN Files /\ name \notin Dirs
    /\ ValidPath(name)

\* C16: a request for a path that is neither a reverse-cache key nor present
\* in the backing file system is answered with status 404, and a request
\* that meets any other error of open or of Stat with status 500.
C16_NotFoundIs404OtherErrorsAre500 ==
    \A g \in Goroutines :
        /\ (RequestEnded(g) /\ NotFound(g.arg)) => (Served(g) /\ g.ret.status = 404)
        /\ (RequestEnded(g) /\ ~ValidPath(g.arg)) => (Served(g) /\ g.ret.status = 500)
        /\ (Served(g) /\ g.ret.statErr) => g.ret.status = 500

\* C17: every request that resolves to a directory, the root request "/"
\* included, is answered with status 403 and nothing of the directory's
\* content: no listing is ever produced.
C17_DirectoryIs403 ==
    \A g \in Goroutines :
        /\ (RequestEnded(g) /\ g.arg \in Dirs) =>
              /\ Served(g)
              /\ g.ret.statErr \/ (g.ret.status = 403 /\ g.ret.body = "403 Forbidden")
        /\ Served(g) => (g.ret.status = 200 => g.ret.served \notin Dirs)

\* A call of the revision's name function with a filename and a hash that are
\* both non-empty has returned.
NamedCall == nameCall # NoNameCall /\ nameCall.filename # Str0 /\ nameCall.hash # Str0

\* C18: an FS that NewFS built with no options uses the suffix policy: its
\* hash location is the end of the filename, and the name it makes of a
\* filename f and a hash h is f, a dash, h, and the extension of f.
C18_DefaultIsSuffix ==
    options = NoOptions =>
        /\ hashLocation = hashLocationEnd
        /\ NamedCall =>
              nameCall.out = nameCall.filename \o << "-" >> \o nameCall.hash
                                 \o PathExt(nameCall.filename)

\* C19: under the suffix policy the name made of a non-empty filename f and
\* a non-empty hash h is f, a dash, h, and the extension of f (from its last
\* period on, empty when f has no period).
C19_SuffixName ==
    (hashLocation = hashLocationEnd /\ NamedCall) =>
        nameCall.out = nameCall.filename \o << "-" >> \o nameCall.hash
                           \o PathExt(nameCall.filename)

\* C20: under the prefix policy the name made of a non-empty filename f and
\* a non-empty hash h is h, a dash, and f.
C20_PrefixName ==
    (hashLocation = hashLocationStart /\ NamedCall) =>
        nameCall.out = nameCall.hash \o << "-" >> \o nameCall.filename

\* C21: under the first-period policy the name made of a non-empty filename
\* f and a non-empty hash h is f with a dash and h put in right before the
\* first period of f, and at the end of f when f has no period.
C21_FirstPeriodName ==
    (hashLocation = hashLocationFirstPeriod /\ NamedCall) =>
        LET f == nameCall.filename
            h == nameCall.hash
        IN \E k \in 0..Len(f) :
              /\ \A j \in 1..k : f[j] # "."
              /\ k = Len(f) \/ f[k + 1] = "."
              /\ nameCall.out = SubSeq(f, 1, k) \o << "-" >> \o h \o SubSeq(f, k + 1, Len(f))

\* A first-period name was made of a filename with two periods.
C21_Witness ==
    /\ hashLocation = hashLocationFirstPeriod /\ NamedCall
    /\ nameCall.filename = << "a", ".", "." >>
    /\ nameCall.hash = EncodedSum256("K1")
    /\ Len(nameCall.out) = Len(nameCall.filename) + 1 + Sha256HexLen

\* A hash location that is none of the three (the tests set 400).
UnknownHashLocation == 400

\* The revision's name function.
SpliceName(filename, hash, hl) ==
    IF revision = "legacy" THEN FormatName(filename, hash, hl)
                           ELSE addHashToFilname(filename, hash, hl)

\* C22: the name function returns the empty string whenever the filename is
\* empty, or the hash is empty, or the hash location is none of the three.
C22_EmptyOnBadArguments ==
    nameCall # NoNameCall =>
        /\ (nameCall.filename = Str0 \/ nameCall.hash = Str0) => nameCall.out = Str0
        /\ SpliceName(nameCall.filename, nameCall.hash, UnknownHashLocation) = Str0

\* Length of a hex-encoded MD5 digest.
Md5HexLen == 32

\* calculateHash, which the tests call and whose code is not part of src/:
\* the hex digest of buf under the configured algorithm, cut to the
\* configured hash length n when 0 < n < the length of the digest.
calculateHash(buf, algo, n) ==
    LET full == IF algo = MD5 THEN [i \in 1..Md5HexLen |-> DigestDigit(buf)]
                ELSE EncodedSum256(buf)
    IN IF 0 < n /\ n < Len(full) THEN Take(full, n) ELSE full

\* The hashed path of file p that embeds hash by the configured location.
HashedPathWith(p, hash) ==
    IF revision = "legacy" THEN FormatName(p, hash, hashLocation)
    ELSE PathJoin(PathSplit(p).dir, addHashToFilname(PathSplit(p).file, hash, hashLocation))

\* C23: with a configured hash length n, 0 < n < 64, the hash of every
\* reverse entry and the hash every hashed path embeds is the first n
\* characters of the SHA-256 hex digest; with n = 0 or n >= 64 it is the
\* full digest of 64 characters.
C23_HashTruncatedToLength ==
    hashAlgo = SHA256 =>
        /\ \A h \in ReverseKeys :
              /\ ReverseEntry(h).hash
                    = calculateHash(Files[ReverseEntry(h).path], SHA256, hashLength)
              /\ Len(ReverseEntry(h).hash)
                    = (IF 0 < hashLength /\ hashLength < Sha256HexLen
                       THEN hashLength ELSE Sha256HexLen)
        /\ \A q \in DOMAIN Forward :
              Forward[q] = HashedPathWith(q, calculateHash(Files[q], SHA256, hashLength))

C25_HashAlgoValidatedAndUsed ==
    /\ (Len(options) = 1 /\ options[1].name = "HashAlgo"
            /\ options[1].arg \notin SupportedHashAlgos) =>
          (crashed /\ \A g \in Goroutines : g.pc = "idle")
    /\ (options = NoOptions
            \/ (Len(options) = 1 /\ options[1].name = "HashAlgo"
                    /\ options[1].arg \in SupportedHashAlgos)) =>
          /\ ~crashed
          /\ hashAlgo = (IF options = NoOptions THEN SHA256 ELSE options[1].arg)
          /\ \A h \in ReverseKeys :
                ReverseEntry(h).hash
                    = calculateHash(Files[ReverseEntry(h).path], hashAlgo, 0)

\* C26: a HEAD request for an existing regular file is answered with status
\* 200 and the headers, Content-Length among them, and no byte of body; a
\* GET request for the same file is answered with the content of the file.
C26_HeadWritesNoBody ==
    \A g \in Goroutines :
        (RequestEnded(g) /\ g.arg \in DOMAIN Files) =>
            /\ Served(g)
            /\ g.ret.statErr
                  \/ /\ g.ret.status = 200
                     /\ g.ret.contentLength = Size(Files[g.arg])
                     /\ g.method = "HEAD" => g.ret.body = ""
                     /\ g.method = "GET" => g.ret.body = Files[g.arg]

\* No call is in progress.
NoCallInProgress == \A g \in Goroutines : g.pc \in { "idle", "done" }

\* C28: every lock acquired in translate and in the reverse lookup is
\* released in the mode it was acquired in: whenever no call is in progress
\* the lock has no reader and no writer, and Unlock is never called on a
\* lock that is not held for writing.
C28_LocksPairedAndReleased ==
    /\ NoCallInProgress =>
          (mu.readers = 0 /\ mu.leaked = 0 /\ ~mu.writer /\ ~mu.pending)
    /\ ~mu.corrupt
    /\ ~crashed

\* The goroutine is about to read the backing file and hash it (HashName
\* lines 92-100, createHashedPath lines 380-398).
Reading(g) == g.pc \in { "hn_read", "c_read" }

\* C27: in translate the backing file is read and hashed while the calling
\* thread holds no lock: with one goroutine calling, the lock has no reader
\* and no writer when the file is read.
C27_NoLockHeldWhileReading ==
    \A g \in Goroutines :
        Reading(g) => (mu.readers = 0 /\ mu.leaked = 0 /\ ~mu.writer)

\* The call goroutine g is in can never return: the process has ended in it,
\* its wake-up was undone, or it waits for the lock while no other call is
\* in progress and the lock is not free for it.
BlockedForever(g) ==
    \/ g.pc \in { "fatal", "c_asleep" }
    \/ /\ \A u \in Others(g) : Idle(u)
       /\ \/ g.pc \in { "hn_wait", "c_wait" } /\ ~CanAcquire
          \/ g.pc \in { "hn_lock", "c_lock" } /\ ~CanAnnounce
          \/ g.pc = "o_hashname" /\ ~CanRLock

\* C29: every translate and every resolve call eventually returns; in
\* particular a first translate of a path after a translate served from the
\* cache still gets the write lock. No call is ever in a state it cannot
\* leave.
C29_NoCallBlockedForever == \A g \in Goroutines : ~BlockedForever(g)

\* No goroutine is inside a translate call.
NoTranslateInProgress ==
    \A g \in Goroutines : g.op \in TranslateOps => Idle(g)

\* C30: resolve (open) leaves the forward and the reverse cache as they are:
\* a step taken while no translate call is in progress changes neither.
C30_ResolveIsReadOnly ==
    [][NoTranslateInProgress => UNCHANGED << legacyMaps, rewriteMaps >>]_vars

\* The goroutine has the read lock and is at a map lookup: HashName line 85,
\* ParseName line 151, createHashedPath line 371, lookupFromHashedPath line
\* 468.
ReadsMap(g) == g.pc \in { "hn_lookup", "pn_lookup", "c_lookup", "l_lookup" }

\* The goroutine is between its two map stores (HashName lines 104-105,
\* createHashedPath lines 402-403).
WritesMap(g) == g.pc \in { "hn_r", "c_r" }

\* How many goroutines are at a map lookup.
MapReaders ==
    BagCardinality([g \in { x \in DOMAIN gs : ReadsMap(x) } |-> gs[g]])

\* Every goroutine at a map access holds the lock in the mode of the access:
\* a storing goroutine holds it for writing and no other goroutine is at a
\* lookup or at a store, and every goroutine at a lookup is counted among
\* the readers of the lock.
MapAccessLocked ==
    /\ \A g \in Goroutines :
          WritesMap(g) =>
              /\ mu.writer /\ mu.readers = 0
              /\ Copies(gs, g) = 1
              /\ \A u \in Others(g) : ~ReadsMap(u) /\ ~WritesMap(u)
    /\ MapReaders <= mu.readers
    /\ MapReaders > 0 => ~mu.writer

\* A step that stores into a map is taken by the goroutine that holds, or
\* with this step gets, the write lock, while no goroutine is at a lookup.
MapStoreExclusive ==
    (<< legacyMaps, rewriteMaps >>' # << legacyMaps, rewriteMaps >>) =>
        /\ mu.writer \/ mu'.writer
        /\ mu.readers = 0 /\ mu.leaked = 0
        /\ MapReaders = 0
        /\ \E g \in Goroutines :
              /\ g.pc \in { "hn_wait", "hn_r", "c_wait", "c_r" }
              /\ Steps(g)
              /\ \A u \in Others(g) : ~WritesMap(u)

\* C31: the shared maps are free of data races under every interleaving of
\* translate and resolve calls: every store into the forward or the reverse
\* map is made by a goroutine holding the write lock while no other
\* goroutine reads or writes a map, and every map lookup is made by a
\* goroutine holding the read lock.
C31_MapsFreeOfDataRaces == [](MapAccessLocked) /\ [][MapStoreExclusive]_vars

\* A goroutine stores into the maps under the write lock while another
\* goroutine, which missed the same path in its own lookup, is inside its
\* call.
C31_Witness ==
    \E g \in Goroutines :
        /\ WritesMap(g) /\ mu.writer
        /\ \E u \in Others(g) : Inserting(u, g.tl.name)

\* The filename the tests expect of filename f and hash h under hash
\* location hl (TestGetHashPath): h-f at the start, f-h and the extension of
\* f at the end, and -h put in before the first period of f, or at the end
\* of f when it has no period.
ExpectedFilename(f, h, hl) ==
    IF hl = hashLocationStart THEN h \o << "-" >> \o f
    ELSE IF hl = hashLocationEnd THEN f \o << "-" >> \o h \o PathExt(f)
    ELSE LET k == CHOOSE k \in 0..Len(f) :
                     /\ \A j \in 1..k : f[j] # "."
                     /\ k = Len(f) \/ f[k + 1] = "."
         IN SubSeq(f, 1, k) \o << "-" >> \o h \o SubSeq(f, k + 1, Len(f))

\* Translate has made the hashed path of a path it read.
PathTranslated == nameCall # NoNameCall /\ nameCall.fn \in { "HashName", "createHashedPath" }

\* C32: translate changes the final filename component alone: under every
\* hash location the hashed path of a readable path dir/filename is dir/
\* followed by the name made of filename and the hash, whatever periods the
\* directory has.
C32_OnlyFilenameChanges ==
    PathTranslated =>
        \A d \in PathDirs, f \in Filenames :
            nameCall.filename = d \o f =>
                nameCall.out = d \o ExpectedFilename(f, nameCall.hash, hashLocation)

\* pre ends with a dash followed by 64 lower-case hex digits.
EndsWithHashToken(pre) ==
    /\ Len(pre) > Sha256HexLen
    /\ pre[Len(pre) - Sha256HexLen] = "-"
    /\ \A j \in (Len(pre) - Sha256HexLen + 1)..Len(pre) : pre[j] \in HexDigits

\* What the parser is to answer for filename: with pre, the part of the
\* final element before its first period, ending in the hash token, the
\* filename without the token and the 64 digits; the filename and no hash
\* otherwise.
ExpectedParse(filename) ==
    LET s == CHOOSE s \in 0..Len(filename) :
                 /\ s = 0 \/ filename[s] = "/"
                 /\ \A j \in (s + 1)..Len(filename) : filename[j] # "/"
        k == CHOOSE k \in s..Len(filename) :
                 /\ \A j \in (s + 1)..k : filename[j] # "."
                 /\ k = Len(filename) \/ filename[k + 1] = "."
        pre == SubSeq(filename, s + 1, k)
    IN IF EndsWithHashToken(pre)
       THEN [base |-> SubSeq(filename, 1, k - (Sha256HexLen + 1))
                         \o SubSeq(filename, k + 1, Len(filename)),
             hash |-> SubSeq(filename, k - Sha256HexLen + 1, k)]
       ELSE [base |-> filename, hash |-> Str0]

\* C33: ParseName reports a hash only for a filename whose part before the
\* extension ends with a dash and exactly 64 lower-case hex digits, and then
\* answers the filename without these 65 characters and the 64 digits; for
\* every other filename it answers the filename and no hash. So the parse of
\* the first-period name made of a filename f and a 64-digit hash h is
\* (f, h).
C33_ParseNameFindsTrailingHash ==
    /\ (nameCall # NoNameCall /\ nameCall.fn = "ParseName") =>
          nameCall.out = ExpectedParse(nameCall.filename)
    /\ (nameCall # NoNameCall /\ nameCall.fn = "ParseName(FormatName)") =>
          nameCall.out = [base |-> nameCall.filename, hash |-> nameCall.hash]

====
